---- MODULE Spec2Model ----
(***************************************************************************)
(* Model of bot.py: the file-message handler (files_handler and            *)
(* handle_video_merge), the authorization check (is_user_authorized) and   *)
(* the scratch-directory cleanup (cleanup_files).                          *)
(*                                                                         *)
(* All handlers are coroutines on one event loop: the code between two     *)
(* awaits of a network call runs atomically, and a handler suspended at    *)
(* an await may be overtaken by any other handler.  One action of the      *)
(* model is one such block.  A network call takes effect when the block    *)
(* that issues it runs; the handler continues in a later block.            *)
(*                                                                         *)
(* Message ids are counted per chat (per user): message n of a user is     *)
(* the n-th file that user sent.  The bot message that answers message n   *)
(* ("editable", later "reply") is identified by the same n.                *)
(***************************************************************************)
EXTENDS Integers, Sequences, FiniteSets, TLC

None == "None"

\* ------------------------------------------------------------ constants
\* int(Config.OWNER)
OWNER == 1
\* the literal of "len(videos) >= 10"
MAX_VIDEOS == 10
\* items needed before a run may start
MIN_MERGE_ITEMS == 2
\* the extensions the rejection text of handle_video_merge names
VIDEO_EXTENSIONS == {"mp4", "mkv", "webm"}
\* make_buttons is called by handle_video_merge but neither defined nor
\* imported by bot.py: evaluating the name raises NameError, which ends
\* the handler at that point
make_buttons == "NameError"

\* --------------------------------------------------------------- bounds
Users == {1, 2}
\* file messages of all users together, in Spec and in SpecLimit
MaxMsgs == 3
MaxLimitMsgs == 12
\* file messages per user, in SpecSeq
MaxSeqMsgs == 11
\* the handler tasks that may be suspended at an await at the same time
\* (the client is built with workers=300), in Spec and in SpecLimit
Workers == {"w1", "w2", "w3"}
LimitWorkers == {"w1", "w2"}
\* user ids given to is_user_authorized on its own
MaxAuthId == 3

\* file extensions of incoming files ("" is the extension of "name.")
Exts == {"mp4", "mkv", "avi", "conf", ""}
\* a file message: media.file_name present or not, and its extension
Files == {[media |-> FALSE, ext |-> None]} \cup {[media |-> TRUE, ext |-> e] : e \in Exts}
\* user.merge_mode
Modes == {1, 2, 3, 4}

VARIABLES
    queueDB,    \* dict: user -> [videos, subtitles, audios]
    formatDB,   \* dict: user -> the extension recorded for the queue
    replyDB,    \* dict: user -> the id of the recorded prompt
    banned,     \* UserSettings(user).banned
    allowed,    \* UserSettings(user).allowed
    user_dir,   \* downloads/<user> exists
    input_txt,  \* downloads/<user>/input.txt exists
    tasks,      \* the handlers suspended at an await
    nextId,     \* user -> id of the next file message of that user
    fileExt,    \* user -> extensions of the files in queueDB[user].videos, in order
    chat,       \* user -> dict: message id -> text of "editable", the bot message for it
    running,    \* user -> a merge run is under way
    cleanup,    \* user -> how the last cleanup_files call ended, since the last run start
    authCall    \* one call of is_user_authorized on its own

vars == <<queueDB, formatDB, replyDB, banned, allowed, user_dir, input_txt,
          tasks, nextId, fileExt, chat, running, cleanup, authCall>>

\* A Python dict is a function on the set of its keys.
Has(d, k) == k \in DOMAIN d

Put(d, k, v) == [x \in DOMAIN d \cup {k} |-> IF x = k THEN v ELSE d[x]]

Del(d, k) == [x \in DOMAIN d \ {k} |-> d[x]]

EmptyDict == [x \in {} |-> None]

\* Python truthiness of formatDB.get(user): None when absent, else the string
TruthyFormat(d, k) == Has(d, k) /\ d[k] # ""

\* Python truthiness of replyDB.get(user): None when absent, else a message id
TruthyReply(d, k) == Has(d, k) /\ d[k] # 0

Last(s) == s[Len(s)]

EmptyQueue == [videos |-> <<>>, subtitles |-> <<>>, audios |-> <<>>]

NoCall == [user_id |-> 0, owner |-> 0, banned |-> FALSE, allowed |-> FALSE,
           message |-> FALSE, ret |-> "none", stored |-> FALSE]

\* ------------------------------------------------- is_user_authorized
\* is_user_authorized without its "if user.banned" branch
is_user_authorized_no_ban_check(user_id, owner, isBanned, isAllowed, message) ==
    IF user_id = owner
    THEN [ret |-> TRUE, reply |-> None, set |-> TRUE]
    ELSE IF ~isAllowed /\ message
    THEN [ret |-> FALSE, reply |-> "access_denied", set |-> FALSE]
    ELSE [ret |-> TRUE, reply |-> None, set |-> FALSE]

\* What is_user_authorized(user_id, message) returns, the reply it sends and
\* whether it stores allowed = True, for the settings it reads.
is_user_authorized(user_id, owner, isBanned, isAllowed, message) ==
    IF isBanned
    THEN [ret |-> FALSE, reply |-> IF message THEN "banned" ELSE None, set |-> FALSE]
    ELSE IF user_id = owner
    THEN [ret |-> TRUE, reply |-> None, set |-> TRUE]
    ELSE IF ~isAllowed /\ message
    THEN [ret |-> FALSE, reply |-> "access_denied", set |-> FALSE]
    ELSE [ret |-> TRUE, reply |-> None, set |-> FALSE]

\* ------------------------------------------------- handle_video_merge
\* the extension check left out
IsVideoExt_any(file_ext) == TRUE

IsVideoExt(file_ext) == file_ext \in VIDEO_EXTENSIONS

\* the limit check with > for >=
QueueFull_off_by_one(videos) == Len(videos) > MAX_VIDEOS

\* the limit check with 0 for the limit
QueueFull_zero(videos) == Len(videos) >= 0

QueueFull(videos) == Len(videos) >= MAX_VIDEOS

\* formatDB after "if queueDB.get(user) is None: formatDB[user] = file_ext"
FormatAfterInit(u, file_ext) ==
    IF ~Has(queueDB, u) THEN Put(formatDB, u, file_ext) ELSE formatDB

\* The checks of handle_video_merge up to its first await of a bot reply.
VideoChecks(u, file_ext) ==
    LET fmt == FormatAfterInit(u, file_ext) IN
    IF TruthyFormat(fmt, u) /\ file_ext # fmt[u] THEN "type_mismatch"
    ELSE IF ~IsVideoExt(file_ext) THEN "unsupported_format"
    ELSE "processing"

\* ------------------------------------------------------ files_handler
\* What the first block of files_handler does with a message.
FirstBlock(u, mode, f) ==
    LET auth == is_user_authorized(u, OWNER, banned[u], allowed[u], TRUE) IN
    IF ~auth.ret THEN auth.reply
    ELSE IF mode = 4 THEN "extract_mode"
    ELSE IF input_txt[u] THEN "busy"
    ELSE IF ~f.media THEN "invalid_file"
    ELSE IF f.ext = "conf" THEN "config_file"
    ELSE IF mode = 1 THEN VideoChecks(u, f.ext)
    ELSE IF mode \in {2, 3} THEN "NameError_merge_handler"
    ELSE "ignored"

\* files_handler from its start to its first suspension that is followed by
\* more code: the authorization, the early returns, and handle_video_merge up
\* to "editable = await message.reply_text(...)".
files_handler(u, mode, f) ==
    LET id == nextId[u]
        auth == is_user_authorized(u, OWNER, banned[u], allowed[u], TRUE)
        res == FirstBlock(u, mode, f)
        inVideo == res \in {"type_mismatch", "unsupported_format", "processing"}
    IN  /\ nextId' = [nextId EXCEPT ![u] = id + 1]
        /\ allowed' = IF auth.set THEN [allowed EXCEPT ![u] = TRUE] ELSE allowed
        /\ formatDB' = IF inVideo THEN FormatAfterInit(u, f.ext) ELSE formatDB
        /\ tasks' = IF res = "processing"
                    THEN tasks \cup {[user |-> u, id |-> id, ext |-> f.ext, pc |-> "L399"]}
                    ELSE tasks
        /\ chat' = IF res = "processing"
                   THEN [chat EXCEPT ![u] = Put(@, id, "processing")]
                   ELSE chat
        /\ UNCHANGED <<queueDB, replyDB, banned, user_dir, input_txt, fileExt,
                       running, cleanup, authCall>>

\* handle_video_merge resumed after "await message.reply_text(Processing)":
\* creates the queue, checks the limit, appends, and issues the next call.
AfterProcessingReply(t) ==
    LET u == t.user
        q0 == IF ~Has(queueDB, u) THEN EmptyQueue ELSE queueDB[u]
        q1 == [q0 EXCEPT !.videos = Append(@, t.id), !.subtitles = Append(@, None)]
        ext0 == IF ~Has(queueDB, u) THEN <<>> ELSE fileExt[u]
        raises == make_buttons = "NameError"
        full == QueueFull(q0.videos)
        first == ~full /\ Len(q1.videos) = 1
        del == ~full /\ ~first /\ TruthyReply(replyDB, u)
        pc1 == IF full THEN "done"
               ELSE IF first THEN "L420"
               ELSE IF del THEN "L431"
               ELSE IF raises THEN "done"
               ELSE "L445"
        chat1 == IF full /\ ~raises THEN Put(chat[u], t.id, "limit_reached")
                 ELSE IF first THEN Put(chat[u], t.id, "send_more")
                 ELSE IF del THEN Put(chat[u], replyDB[u], "deleted")
                 ELSE IF ~full /\ ~raises
                 THEN Put(chat[u], t.id,
                          IF Len(q1.videos) = MAX_VIDEOS THEN "max_reached" ELSE "added")
                 ELSE chat[u]
    IN  /\ t \in tasks /\ t.pc = "L399"
        /\ queueDB' = Put(queueDB, u, IF full THEN q0 ELSE q1)
        /\ fileExt' = [fileExt EXCEPT ![u] = IF full THEN ext0 ELSE Append(ext0, t.ext)]
        /\ chat' = [chat EXCEPT ![u] = chat1]
        /\ tasks' = IF pc1 = "done" THEN tasks \ {t}
                    ELSE (tasks \ {t}) \cup {[t EXCEPT !.pc = pc1]}
        /\ UNCHANGED <<formatDB, replyDB, banned, allowed, user_dir, input_txt, nextId,
                       running, cleanup, authCall>>

\* resumed after "reply = await editable.edit(...)" or, for a later file,
\* after "reply = await editable.edit_text(...)": records the prompt
AfterEdit(t) ==
    /\ t \in tasks /\ t.pc \in {"L420", "L445"}
    /\ replyDB' = Put(replyDB, t.user, t.id)
    /\ tasks' = tasks \ {t}
    /\ UNCHANGED <<queueDB, formatDB, banned, allowed, user_dir, input_txt, nextId,
                   fileExt, chat, running, cleanup, authCall>>

\* resumed after "await client.delete_messages(...)": make_buttons, then the edit
AfterDelete(t) ==
    LET u == t.user
        raises == make_buttons = "NameError"
        n == IF Has(queueDB, u) THEN Len(queueDB[u].videos) ELSE 0
    IN  /\ t \in tasks /\ t.pc = "L431"
        /\ tasks' = IF raises THEN tasks \ {t}
                    ELSE (tasks \ {t}) \cup {[t EXCEPT !.pc = "L445"]}
        /\ chat' = IF raises THEN chat
                   ELSE [chat EXCEPT ![u] = Put(@, t.id,
                            IF n = MAX_VIDEOS THEN "max_reached" ELSE "added")]
        /\ UNCHANGED <<queueDB, formatDB, replyDB, banned, allowed, user_dir, input_txt,
                       nextId, fileExt, running, cleanup, authCall>>

\* ------------------------------------------------------ cleanup_files
\* shutil.rmtree either removes the directory or raises, having removed
\* nothing or only part of its contents.
RmtreeOutcomes == {"removed", "error_nothing_removed", "error_input_txt_removed"}

\* shutil.rmtree given a path that is not the user's directory
DirAfter_other_path(o) == TRUE

\* downloads/<user> exists after cleanup_files met outcome o
DirAfter(o) == o \in {"error_nothing_removed", "error_input_txt_removed"}

\* cleanup_files(user_id): shutil.rmtree under try/except; an error is logged
\* and swallowed.
cleanup_files(u) ==
    \E o \in (IF user_dir[u] THEN RmtreeOutcomes ELSE {"absent"}) :
       /\ user_dir' = [user_dir EXCEPT ![u] = DirAfter(o)]
       /\ input_txt' = [input_txt EXCEPT ![u] = IF o = "error_nothing_removed"
                                                THEN input_txt[u] ELSE FALSE]
       /\ cleanup' = [cleanup EXCEPT ![u] = IF o = "removed" THEN "cleaned"
                                            ELSE IF o = "absent" THEN "absent"
                                            ELSE "error"]

\* ------------------------------------------- the run (outside bot.py)
\* A merge run starts: the scratch directory and the busy marker are created.
StartRun(u) ==
    /\ ~input_txt[u] /\ ~running[u]
    /\ Has(queueDB, u) /\ Len(queueDB[u].videos) >= MIN_MERGE_ITEMS
    /\ running' = [running EXCEPT ![u] = TRUE]
    /\ user_dir' = [user_dir EXCEPT ![u] = TRUE]
    /\ input_txt' = [input_txt EXCEPT ![u] = TRUE]
    /\ cleanup' = [cleanup EXCEPT ![u] = "none"]
    /\ UNCHANGED <<queueDB, formatDB, replyDB, banned, allowed, tasks, nextId,
                   fileExt, chat, authCall>>

\* The run ends, Done or Failed: cleanup_files is called and the user's queue
\* entry is removed from the store.
EndRun(u) ==
    /\ running[u]
    /\ running' = [running EXCEPT ![u] = FALSE]
    /\ cleanup_files(u)
    /\ queueDB' = Del(queueDB, u)
    /\ fileExt' = [fileExt EXCEPT ![u] = <<>>]
    /\ UNCHANGED <<formatDB, replyDB, banned, allowed, tasks, nextId, chat, authCall>>

\* ------------------------------------------------------ specifications
InitStores ==
    /\ queueDB = EmptyDict
    /\ formatDB = EmptyDict
    /\ replyDB = EmptyDict
    /\ user_dir = [u \in Users |-> FALSE]
    /\ input_txt = [u \in Users |-> FALSE]
    /\ tasks = {}
    /\ nextId = [u \in Users |-> 1]
    /\ fileExt = [u \in Users |-> <<>>]
    /\ chat = [u \in Users |-> EmptyDict]
    /\ running = [u \in Users |-> FALSE]
    /\ cleanup = [u \in Users |-> "none"]

\* file messages handled so far
Handled == nextId[1] + nextId[2] - 2

\* The state after start-up: empty stores, any user settings.
Init ==
    /\ InitStores
    /\ banned \in [Users -> BOOLEAN]
    /\ allowed \in [Users -> BOOLEAN]
    /\ authCall = NoCall

Next ==
    \/ \E u \in Users, mode \in Modes, f \in Files :
         /\ Handled < MaxMsgs /\ Cardinality(tasks) < Cardinality(Workers)
         /\ files_handler(u, mode, f)
    \/ \E t \in tasks : AfterProcessingReply(t)
    \/ \E t \in tasks : AfterEdit(t)
    \/ \E t \in tasks : AfterDelete(t)
    \/ \E u \in Users : StartRun(u)
    \/ \E u \in Users : EndRun(u)

Spec == Init /\ [][Next]_vars

\* ---- handlers at the queue limit: authorized users sending mp4 files in
\* ---- video mode, the handlers interleaved
InitAuthorized ==
    /\ InitStores
    /\ banned = [u \in Users |-> FALSE]
    /\ allowed = [u \in Users |-> TRUE]
    /\ authCall = NoCall

NextLimit ==
    \/ \E u \in Users :
         /\ Handled < MaxLimitMsgs /\ Cardinality(tasks) < Cardinality(LimitWorkers)
         /\ files_handler(u, 1, [media |-> TRUE, ext |-> "mp4"])
    \/ \E t \in tasks : AfterProcessingReply(t)
    \/ \E t \in tasks : AfterEdit(t)
    \/ \E t \in tasks : AfterDelete(t)

SpecLimit == InitAuthorized /\ [][NextLimit]_vars

\* ---- one file after another: a handler starts only when none is suspended,
\* ---- each user sends files of one supported extension, no run is started
NextSeq ==
    \/ \E u \in Users, e \in VIDEO_EXTENSIONS :
         /\ tasks = {} /\ nextId[u] <= MaxSeqMsgs
         /\ Has(queueDB, u) => e = formatDB[u]
         /\ files_handler(u, 1, [media |-> TRUE, ext |-> e])
    \/ \E t \in tasks : AfterProcessingReply(t)
    \/ \E t \in tasks : AfterEdit(t)
    \/ \E t \in tasks : AfterDelete(t)

SpecSeq == InitAuthorized /\ [][NextSeq]_vars

\* ---- is_user_authorized on its own, for every combination of its inputs
InitAuth ==
    /\ InitStores
    /\ banned = [u \in Users |-> FALSE]
    /\ allowed = [u \in Users |-> TRUE]
    /\ authCall \in [user_id : 1..MaxAuthId, owner : 1..MaxAuthId, banned : BOOLEAN,
                     allowed : BOOLEAN, message : BOOLEAN, ret : {"pending"},
                     stored : {FALSE}]

CallAuth ==
    LET r == is_user_authorized(authCall.user_id, authCall.owner, authCall.banned,
                                authCall.allowed, authCall.message)
    IN  /\ authCall.ret = "pending"
        /\ authCall' = [authCall EXCEPT !.ret = IF r.ret THEN "True" ELSE "False",
                                        !.stored = r.set]
        /\ UNCHANGED <<queueDB, formatDB, replyDB, banned, allowed, user_dir, input_txt,
                       tasks, nextId, fileExt, chat, running, cleanup>>

NextAuth == CallAuth

SpecAuth == InitAuth /\ [][NextAuth]_vars

\* ------------------------------------------------------------ claims
NoTaskOf(u) == \A t \in tasks : t.user # u

Videos(u) == queueDB[u].videos

\* the bot messages of user u that show a prompt (the texts recorded in replyDB)
PromptTexts == {"send_more", "added", "max_reached"}

\* C1: under any interleaving of handle_video_merge handlers, of one user or
\* of several, every user's video queue holds between 0 and 10 entries.
C1_QueueLengthBounded ==
    \A u \in DOMAIN queueDB : Len(Videos(u)) >= 0 /\ Len(Videos(u)) <= 10

\* C1 witness: message 11 overtook message 10 at the limit: the queue holds
\* 10 entries, the last of them message 11, and message 10 was turned away.
C1_Witness ==
    \E u \in DOMAIN queueDB :
        /\ Len(Videos(u)) = 10 /\ Last(Videos(u)) = 11
        /\ nextId[u] = 12 /\ NoTaskOf(u)

\* C2: one user's files of one supported extension, one handler after the
\* other, no busy marker: once all handlers have finished, the queue holds
\* the first 10 files sent, one entry each, in order, and every file after
\* the tenth was answered with the maximum-limit text.
C2_SequentialEnqueue ==
    \A u \in Users :
        (NoTaskOf(u) /\ nextId[u] > 1) =>
            LET sent == nextId[u] - 1
                kept == IF sent < 10 THEN sent ELSE 10
            IN  /\ Has(queueDB, u)
                /\ Videos(u) = [i \in 1..kept |-> i]
                /\ \A n \in 11..sent : chat[u][n] = "limit_reached"

\* the queue half of C2 alone
C2_QueueCounts ==
    \A u \in Users :
        (NoTaskOf(u) /\ nextId[u] > 1) =>
            LET sent == nextId[u] - 1
                kept == IF sent < 10 THEN sent ELSE 10
            IN  Has(queueDB, u) /\ Videos(u) = [i \in 1..kept |-> i]

\* C3: in video mode a file whose extension is not in VIDEO_EXTENSIONS is
\* rejected in the block that receives it: no handler stays behind to append
\* it, and queueDB is left as it was (nothing appended, no queue created).
C3_UnsupportedRejected ==
    [][\A u \in Users :
          nextId'[u] # nextId[u] =>
              \A f \in Files :
                  (f.media /\ f.ext \notin VIDEO_EXTENSIONS /\ files_handler(u, 1, f))
                      => (queueDB' = queueDB /\ tasks' = tasks)]_vars

\* C3 witness: a user's first file in video mode was an avi: its extension
\* was recorded, the file was turned away and no queue exists.
C3_Witness ==
    \E u \in Users :
        /\ Has(formatDB, u) /\ formatDB[u] = "avi"
        /\ ~Has(queueDB, u) /\ NoTaskOf(u)

\* C4: no file is appended to a user's queue while that user's busy marker
\* downloads/<user>/input.txt exists.
C4_NoAppendWhileBusy ==
    [][\A u \in Users :
          (Has(queueDB', u) /\ (~Has(queueDB, u) \/ queueDB'[u] # queueDB[u]))
              => ~input_txt[u]]_vars

\* C5: a file message of a user who is banned, or who is neither the owner
\* nor allowed, changes none of queueDB, formatDB, replyDB and leaves no
\* handler behind that could (nextId[u] moves when files_handler receives a
\* message of u, and only then).
C5_UnauthorizedChangesNothing ==
    [][\A u \in Users :
          (nextId'[u] # nextId[u] /\ (banned[u] \/ (u # OWNER /\ ~allowed[u])))
              => (queueDB' = queueDB /\ formatDB' = formatDB /\ replyDB' = replyDB
                  /\ tasks' = tasks)]_vars

\* C5 witness: a banned user and a user who is not allowed have each sent a
\* file, and the stores hold nothing for either.
C5_Witness ==
    /\ \E u \in Users : banned[u] /\ nextId[u] > 1 /\ ~Has(formatDB, u)
    /\ \E u \in Users : ~banned[u] /\ u # OWNER /\ ~allowed[u] /\ nextId[u] > 1
                        /\ ~Has(formatDB, u)

C7_EntryOnlyByAcceptedFile ==
    [][/\ \A u \in DOMAIN queueDB' : Len(queueDB'[u].videos) >= 1
       /\ nextId' # nextId => queueDB' = queueDB
       /\ \A t \in tasks :
              (t.pc = "L399" /\ AfterProcessingReply(t)
               /\ \A i \in 1..Len(queueDB'[t.user].videos) :
                      queueDB'[t.user].videos[i] # t.id)
                  => queueDB' = queueDB]_vars

\* C7 witness: one user's files were all turned away and that user has no
\* entry, while another user's accepted file created one.
C7_Witness ==
    /\ \E u \in Users : nextId[u] > 2 /\ DOMAIN chat[u] = {} /\ ~Has(queueDB, u)
                        /\ ~banned[u] /\ allowed[u]
    /\ \E u \in DOMAIN queueDB : Len(Videos(u)) >= 1

\* C8: every file in a user's video queue has the extension of the first
\* file accepted into it, which is the one recorded in formatDB.
C8_FormatLock ==
    \A u \in DOMAIN queueDB :
        \A i \in 1..Len(fileExt[u]) :
            fileExt[u][i] = fileExt[u][1] /\ fileExt[u][i] = formatDB[u]

\* C9: is_user_authorized returns True only if the user is not banned and is
\* the owner or allowed, with or without a message.
C9_AuthorizedOnlyIf ==
    authCall.ret = "True" =>
        (~authCall.banned /\ (authCall.user_id = authCall.owner \/ authCall.allowed))

\* C10: when no handler of a user is in progress and the user's queue is not
\* empty, replyDB names the prompt of the file appended last, that prompt is
\* shown, and no other prompt of the queue's files is.
C10_OneLivePrompt ==
    \A u \in DOMAIN queueDB :
        (NoTaskOf(u) /\ Len(Videos(u)) >= 1) =>
            /\ Has(replyDB, u) /\ replyDB[u] = Last(Videos(u))
            /\ \A i \in 1..Len(Videos(u)) :
                   (Has(chat[u], Videos(u)[i]) /\ chat[u][Videos(u)[i]] \in PromptTexts)
                       <=> i = Len(Videos(u))

====
